---- MODULE Spec2Model ----
(***************************************************************************)
(* mstem: a Stemmer is built from lexicon files and a rule file, and then  *)
(* answers stem, parse, parse_wp, segment and gloss for tokens.            *)
(*                                                                         *)
(* Text is a sequence of code points, each code point a one-element name.  *)
(* "e_acute" is the precomposed U+00E9; its canonical decomposition is     *)
(* "e" followed by the combining mark "acute".                             *)
(***************************************************************************)
EXTENDS Integers, Sequences, FiniteSets, TLC

VARIABLES
    lex_fns,    \* the lexicon files handed to __init__: a list of files, each a list of lines
    rule_fn,    \* the rule file handed to __init__: a header row, then (a, b, glosses) rows
    phase,      \* "new" before __init__ ran, "ready" with an engine, "failed" when it raised
    error,      \* the exception __init__ raised, or "none"
    lexicon,    \* self.lexicon
    rules,      \* self.rules
    call        \* the last call on the engine: operation, argument, return value, loop history

vars == <<lex_fns, rule_fn, phase, error, lexicon, rules, call>>

----------------------------------------------------------------------------
(* Bounds of the model. *)

MaxRules == 2

MaxTokenLen == 2

----------------------------------------------------------------------------
(* Text. *)

Min(x, y) == IF x < y THEN x ELSE y

Max(x, y) == IF x > y THEN x ELSE y

\* s[i:j] of Python, 0-based, end exclusive, clipped to the text.
Slice(s, i, j) == SubSeq(s, Max(i, 0) + 1, Min(j, Len(s)))

\* The canonical decomposition of one code point.
Decomp(c) == IF c = "e_acute" THEN <<"e", "acute">> ELSE <<c>>

RECURSIVE normalize(_)
\* unicodedata.normalize('NFD', s); the texts hold at most one combining
\* mark in a row, so canonical reordering has nothing to reorder.
normalize(s) ==
    IF s = <<>> THEN <<>> ELSE Decomp(Head(s)) \o normalize(Tail(s))

IsSpace(c) == c \in {"\t", " ", "\n"}

RECURSIVE lstrip(_)
lstrip(s) == IF s # <<>> /\ IsSpace(Head(s)) THEN lstrip(Tail(s)) ELSE s

RECURSIVE rstrip(_)
rstrip(s) ==
    IF s # <<>> /\ IsSpace(s[Len(s)]) THEN rstrip(SubSeq(s, 1, Len(s) - 1)) ELSE s

\* str.strip()
strip(s) == rstrip(lstrip(s))

RECURSIVE split(_, _)
\* str.split(sep): the fields between the separators; ''.split(sep) is [''].
split(s, sep) ==
    IF s = <<>> THEN << <<>> >>
    ELSE LET rest == split(Tail(s), sep) IN
         IF Head(s) = sep THEN << <<>> >> \o rest
         ELSE << <<Head(s)>> \o Head(rest) >> \o Tail(rest)

RECURSIVE join(_)
\* ''.join(parts)
join(parts) == IF parts = <<>> THEN <<>> ELSE Head(parts) \o join(Tail(parts))

----------------------------------------------------------------------------
(* Patterns. The rule files of the model use the fragment of the pattern   *)
(* language made of an optional leading ^, literal code points and an      *)
(* optional trailing $; replacements are literal. Tokens hold no newline,  *)
(* so $ matches at the end of the token only.                              *)

Caret(a) == a # <<>> /\ a[1] = "^"

Dollar(a) == Len(a) > (IF Caret(a) THEN 1 ELSE 0) /\ a[Len(a)] = "$"

\* The literal between the anchors.
Body(a) ==
    SubSeq(a, (IF Caret(a) THEN 2 ELSE 1), (IF Dollar(a) THEN Len(a) - 1 ELSE Len(a)))

\* Whether the pattern matches the token at offset p (0-based).
MatchesAt(a, token, p) ==
    /\ p >= 0
    /\ p + Len(Body(a)) <= Len(token)
    /\ Slice(token, p, p + Len(Body(a))) = Body(a)
    /\ Caret(a) => p = 0
    /\ Dollar(a) => p + Len(Body(a)) = Len(token)

\* The offset of the leftmost match at or after pos, or -1.
NextMatch(a, token, pos) ==
    LET hits == {p \in pos..Len(token) : MatchesAt(a, token, p)} IN
    IF hits = {} THEN -1 ELSE CHOOSE p \in hits : \A q \in hits : p <= q

\* a_re.search(token): the offset of the leftmost match, or -1 for None.
search(a, token) == NextMatch(a, token, 0)

\* a_re.search(token).group(0): the matched text.
group0(a, token) ==
    Slice(token, search(a, token), search(a, token) + Len(Body(a)))

RECURSIVE finditer(_, _, _)
\* The offsets of the non-overlapping matches from pos on, left to right;
\* after an empty match the scan moves one code point on.
finditer(a, token, pos) ==
    LET p == NextMatch(a, token, pos) IN
    IF p = -1 THEN <<>>
    ELSE IF Len(Body(a)) > 0 THEN <<p>> \o finditer(a, token, p + Len(Body(a)))
    ELSE IF p < Len(token) THEN <<p>> \o finditer(a, token, p + 1)
    ELSE <<p>>

RECURSIVE Splice(_, _, _, _, _)
\* token from pos on, with the n code points at each offset of offs replaced by b.
Splice(token, offs, n, b, pos) ==
    IF offs = <<>> THEN Slice(token, pos, Len(token))
    ELSE Slice(token, pos, Head(offs)) \o b
         \o Splice(token, Tail(offs), n, b, Head(offs) + n)

\* a_re.sub(b, token, count): count = 0 replaces every match, count = k the first k.
sub(a, b, token, count) ==
    LET all == finditer(a, token, 0)
        offs == IF count = 0 THEN all ELSE SubSeq(all, 1, Min(count, Len(all)))
    IN  Splice(token, offs, Len(Body(a)), b, 0)

Upper == {"A", "B", "C", "V"}

\* self.class_re.match(m) with class_re = \{\{[A-Z]+\}\}: m begins with a class marker.
class_re_match(m) ==
    \E k \in 1..Len(m) :
        /\ Len(m) >= k + 4
        /\ m[1] = "{" /\ m[2] = "{"
        /\ \A i \in 3..(k + 2) : m[i] \in Upper
        /\ m[k + 3] = "}" /\ m[k + 4] = "}"

----------------------------------------------------------------------------
(* Construction. *)

Delimiter == "\t"

\* The first field of one line of a lexicon file.
LexField(line, delimiter) == split(strip(line), delimiter)[1]

\* Stemmer._read_lex: the first field of every line of every file.
_read_lex(fns, delimiter) ==
    UNION {{LexField(fns[f][l], delimiter) : l \in DOMAIN fns[f]} : f \in DOMAIN fns}

\* The position of a pattern, or the exception its classification raises.
Classify(a) ==
    IF Slice(a, 0, 2) = <<"{", "{">> /\ Slice(a, Len(a) - 2, Len(a)) = <<"}", "}">>
    THEN "delete"
    ELSE IF a = <<>> THEN "IndexError"
    ELSE IF a[1] = "^" THEN "prefix"
    ELSE IF a[Len(a)] = "$" THEN "suffix"
    ELSE "MalformedRuleError"

\* The rule one row compiles to.
CompileRow(row) ==
    [pos |-> Classify(normalize(row[1])),
     a   |-> normalize(row[1]),
     b   |-> normalize(row[2]),
     gl  |-> split(row[3], ".")]

RECURSIVE ReadRows(_, _)
\* The loop over the rows of the rule file: the rules in file order, or the
\* exception of the first row that raises.
ReadRows(rows, acc) ==
    IF rows = <<>> THEN [error |-> "none", rules |-> acc]
    ELSE LET r == CompileRow(Head(rows)) IN
         IF r.pos \in {"IndexError", "MalformedRuleError"}
         THEN [error |-> r.pos, rules |-> <<>>]
         ELSE ReadRows(Tail(rows), Append(acc, r))

\* Stemmer._read_rules: next(reader) drops the header row.
_read_rules(fn) == ReadRows(Tail(fn), <<>>)

----------------------------------------------------------------------------
(* The rewrite loops. A run is the loop's state: the working token, the    *)
(* two deques, and its history: tried lists the index of every rule whose  *)
(* substitution the loop reached, hist the loop state each of them found.  *)

\* appendleft as a push at the wrong end would have it.
appendleft_back(dq, x) == Append(dq, x)

appendleft(dq, x) == <<x>> \o dq

append(dq, x) == Append(dq, x)

extend(dq, xs) == dq \o xs

RECURSIVE extendleft(_, _)
\* deque.extendleft: appendleft of each element in turn.
extendleft(dq, xs) ==
    IF xs = <<>> THEN dq ELSE extendleft(appendleft(dq, Head(xs)), Tail(xs))

Snapshot(run) == [token |-> run.token, prefixes |-> run.prefixes, suffixes |-> run.suffixes]

StartRun(token) ==
    [token |-> normalize(token), prefixes |-> <<>>, suffixes |-> <<>>,
     tried |-> <<>>, hist |-> <<>>, halt |-> "Running"]

\* InLexicon as a loop without its break would have it.
InLexicon_nobreak(token, lex) == FALSE

\* The guard of both loops: token in self.lexicon.
InLexicon(token, lex) == token \in lex

\* stem_sub as a helper shared with _parse would have it: the first match only.
stem_sub_first(rule, token) == sub(rule.a, rule.b, token, 1)

\* The substitution of stem's loop.
stem_sub(rule, token) == sub(rule.a, rule.b, token, 0)

\* stem_iter as a loop that stays on a rule while its pattern is found would
\* have it: the rule is tried a second time.
stem_iter_again(rule, i, run) ==
    LET once == [run EXCEPT !.token = stem_sub(rule, run.token),
                            !.tried = Append(run.tried, i),
                            !.hist = Append(run.hist, Snapshot(run))]
    IN  IF search(rule.a, once.token) = -1 THEN once
        ELSE [once EXCEPT !.token = stem_sub(rule, once.token),
                          !.tried = Append(once.tried, i),
                          !.hist = Append(once.hist, Snapshot(once))]

\* One iteration of stem's loop past the lexicon check.
stem_iter(rule, i, run) ==
    [run EXCEPT !.token = stem_sub(rule, run.token),
                !.tried = Append(run.tried, i),
                !.hist = Append(run.hist, Snapshot(run))]

RECURSIVE stem_loop(_, _, _, _)
stem_loop(rs, lex, i, run) ==
    IF i > Len(rs) THEN [run EXCEPT !.halt = "Exhausted"]
    ELSE IF InLexicon(run.token, lex) THEN [run EXCEPT !.halt = "Matched"]
    ELSE stem_loop(rs, lex, i + 1, stem_iter(rs[i], i, run))

\* The prefix deque after a rule matched the text m.
push_prefix(rule, m, gloss, prefixes) ==
    IF rule.pos # "prefix" THEN prefixes
    ELSE IF gloss THEN extend(prefixes, rule.gl)
    ELSE append(prefixes, m)

\* The suffix deque after a rule matched the text m.
push_suffix(rule, m, gloss, suffixes) ==
    IF rule.pos # "suffix" THEN suffixes
    ELSE IF gloss THEN extendleft(suffixes, rule.gl)
    ELSE appendleft(suffixes, m)

\* Surfaces as _parse without its class_re check would have it.
Surfaces_always(m) == TRUE

\* Whether a match of text m is recorded at all.
Surfaces(m) == ~class_re_match(m)

\* The substitution of _parse's loop.
parse_sub(rule, token) == sub(rule.a, rule.b, token, 1)

\* One iteration of _parse's loop past the lexicon check.
parse_iter(rule, i, run, gloss) ==
    LET entered == [run EXCEPT !.tried = Append(run.tried, i),
                               !.hist = Append(run.hist, Snapshot(run))]
        m == group0(rule.a, run.token)
    IN  IF search(rule.a, run.token) = -1 THEN entered
        ELSE [entered EXCEPT
                !.prefixes = IF Surfaces(m) THEN push_prefix(rule, m, gloss, run.prefixes)
                             ELSE run.prefixes,
                !.suffixes = IF Surfaces(m) THEN push_suffix(rule, m, gloss, run.suffixes)
                             ELSE run.suffixes,
                !.token = parse_sub(rule, run.token)]

RECURSIVE parse_loop(_, _, _, _, _)
parse_loop(rs, lex, i, run, gloss) ==
    IF i > Len(rs) THEN [run EXCEPT !.halt = "Exhausted"]
    ELSE IF InLexicon(run.token, lex) THEN [run EXCEPT !.halt = "Matched"]
    ELSE parse_loop(rs, lex, i + 1, parse_iter(rs[i], i, run, gloss), gloss)

\* Stemmer.stem, with its history.
stem_run(rs, lex, token) == stem_loop(rs, lex, 1, StartRun(token))

\* Stemmer._parse, with its history.
_parse(rs, lex, token, gloss) == parse_loop(rs, lex, 1, StartRun(token), gloss)

Range(s) == {s[i] : i \in DOMAIN s}

\* The return values.
stem_ret(run) == run.token

parse_ret(run) == run.prefixes \o <<run.token>> \o run.suffixes

parse_wp_ret(run) == <<run.token, Range(run.prefixes \o run.suffixes)>>

segment_ret(run) == <<join(run.prefixes), run.token, join(run.suffixes)>>

----------------------------------------------------------------------------
(* The inputs of the model. *)

RECURSIVE SeqsUpTo(_, _)
\* Every sequence over S of length at most n.
SeqsUpTo(S, n) ==
    IF n = 0 THEN {<<>>}
    ELSE LET shorter == SeqsUpTo(S, n - 1) IN
         shorter \cup {Append(s, x) : s \in shorter, x \in S}

Marker == <<"{", "{", "A", "}", "}">>

RuleRows ==
    { << <<"s", "$">>, <<>>, <<"P", "L">> >>,
      << <<"d", "$">>, <<>>, <<"P", ".", "T">> >>,
      << <<"^", "a">>, <<>>, <<"N">> >>,
      << Marker, <<"a">>, <<>> >>,
      << <<"^">> \o Marker, <<>>, <<"C">> >>,
      << <<"a", "d">>, <<>>, <<"X">> >>,
      << <<>>, <<>>, <<>> >> }

HeaderRow == << <<"a">>, <<"b">>, <<"g">> >>

RuleFiles == {<<HeaderRow>> \o rows : rows \in SeqsUpTo(RuleRows, MaxRules)}

LexFiles ==
    { <<>>,
      << << <<"a">> >> >>,
      << << <<"a", "\t", "n", "\n">>, <<"\n">> >> >>,
      << << <<"e_acute">> >> >>,
      << << <<"e", "acute">> >> >>,
      << << <<"a", "s">> >>, << <<"d">> >> >> }

Tokens ==
    SeqsUpTo({"a", "s", "d"}, MaxTokenLen)
    \cup { <<"a", "d", "s">>, <<"a", "a", "s">>,
           <<"e_acute">>, <<"e", "acute">>, Marker \o <<"s">>, Marker \o Marker }

\* No call is in progress: the caller holds no result of the engine.
NoCall ==
    [op |-> "none", token |-> <<>>, gloss |-> FALSE, ret |-> <<>>, run |-> StartRun(<<>>)]

----------------------------------------------------------------------------
(* The state machine. *)

Init ==
    /\ lex_fns \in LexFiles
    /\ rule_fn \in RuleFiles
    /\ phase = "new"
    /\ error = "none"
    /\ lexicon = {}
    /\ rules = <<>>
    /\ call = NoCall

\* Stemmer.__init__: the lexicon is read first, then the rules; an
\* exception of either leaves no engine.
Construct ==
    /\ phase = "new"
    /\ LET lex == _read_lex(lex_fns, Delimiter)
           rd  == _read_rules(rule_fn)
       IN  IF rd.error = "none"
           THEN /\ phase' = "ready"
                /\ lexicon' = lex
                /\ rules' = rd.rules
                /\ error' = "none"
           ELSE /\ phase' = "failed"
                /\ error' = rd.error
                /\ UNCHANGED <<lexicon, rules>>
    /\ UNCHANGED <<lex_fns, rule_fn, call>>

Stem ==
    /\ phase = "ready"
    /\ call = NoCall
    /\ \E token \in Tokens :
        LET run == stem_run(rules, lexicon, token) IN
        call' = [op |-> "stem", token |-> token, gloss |-> FALSE,
                 ret |-> stem_ret(run), run |-> run]
    /\ UNCHANGED <<lex_fns, rule_fn, phase, error, lexicon, rules>>

Parse ==
    /\ phase = "ready"
    /\ call = NoCall
    /\ \E token \in Tokens, gloss \in BOOLEAN :
        LET run == _parse(rules, lexicon, token, gloss) IN
        call' = [op |-> "parse", token |-> token, gloss |-> gloss,
                 ret |-> parse_ret(run), run |-> run]
    /\ UNCHANGED <<lex_fns, rule_fn, phase, error, lexicon, rules>>

ParseWp ==
    /\ phase = "ready"
    /\ call = NoCall
    /\ \E token \in Tokens :
        LET run == _parse(rules, lexicon, token, TRUE) IN
        call' = [op |-> "parse_wp", token |-> token, gloss |-> TRUE,
                 ret |-> parse_wp_ret(run), run |-> run]
    /\ UNCHANGED <<lex_fns, rule_fn, phase, error, lexicon, rules>>

Segment ==
    /\ phase = "ready"
    /\ call = NoCall
    /\ \E token \in Tokens :
        LET run == _parse(rules, lexicon, token, FALSE) IN
        call' = [op |-> "segment", token |-> token, gloss |-> FALSE,
                 ret |-> segment_ret(run), run |-> run]
    /\ UNCHANGED <<lex_fns, rule_fn, phase, error, lexicon, rules>>

Gloss ==
    /\ phase = "ready"
    /\ call = NoCall
    /\ \E token \in Tokens :
        LET run == _parse(rules, lexicon, token, TRUE) IN
        call' = [op |-> "gloss", token |-> token, gloss |-> TRUE,
                 ret |-> parse_ret(run), run |-> run]
    /\ UNCHANGED <<lex_fns, rule_fn, phase, error, lexicon, rules>>

\* The caller takes the return value; the call's state is gone.
Return ==
    /\ call # NoCall
    /\ call' = NoCall
    /\ UNCHANGED <<lex_fns, rule_fn, phase, error, lexicon, rules>>

Next == Construct \/ Stem \/ Parse \/ ParseWp \/ Segment \/ Gloss \/ Return

Spec == Init /\ [][Next]_vars

----------------------------------------------------------------------------
(* The last call, read back from its history. *)

Called == call.op # "none"

Steps == Len(call.run.tried)

\* The rule of the k-th substitution attempt of the call.
RuleAt(k) == rules[call.run.tried[k]]

\* The loop state the k-th attempt found, and the one it left.
Before(k) == call.run.hist[k]

After(k) == IF k < Steps THEN call.run.hist[k + 1] ELSE Snapshot(call.run)

\* Whether the pattern of the k-th attempt was found, and the text it matched.
Hit(k) == search(RuleAt(k).a, Before(k).token) # -1

Lit(k) == group0(RuleAt(k).a, Before(k).token)

\* The number of non-overlapping matches the k-th attempt found.
Occurrences(k) == Len(finditer(RuleAt(k).a, Before(k).token, 0))

\* The entries the k-th attempt added to the two deques.
Grew(k) ==
    (Len(After(k).prefixes) + Len(After(k).suffixes))
    - (Len(Before(k).prefixes) + Len(Before(k).suffixes))

\* The stem the call returned.
StemOf ==
    CASE call.op = "stem" -> call.ret
      [] call.op \in {"parse", "gloss"} -> call.ret[Len(call.run.prefixes) + 1]
      [] call.op = "parse_wp" -> call.ret[1]
      [] call.op = "segment" -> call.ret[2]

LiteralMode == call.op = "segment" \/ (call.op = "parse" /\ ~call.gloss)

GlossMode == call.op \in {"gloss", "parse_wp"} \/ (call.op = "parse" /\ call.gloss)

RECURSIVE Reverse(_)
Reverse(s) == IF s = <<>> THEN <<>> ELSE Append(Reverse(Tail(s)), Head(s))

\* Whether the k-th attempt matched a rule of position pos with a text that
\* is no class marker.
Affixed(k, pos) == Hit(k) /\ RuleAt(k).pos = pos /\ ~class_re_match(Lit(k))

RECURSIVE Matched(_, _)
\* The texts matched by the rules of position pos among the first k attempts,
\* in the order the rules were applied.
Matched(k, pos) ==
    IF k = 0 THEN <<>>
    ELSE IF Affixed(k, pos) THEN Append(Matched(k - 1, pos), Lit(k))
    ELSE Matched(k - 1, pos)

----------------------------------------------------------------------------
(* The claims. *)

\* C1: for every token that is a member of the lexicon, stem(token) returns
\* exactly token and parse(token) returns exactly [token], and no rule is
\* applied.
C1_LexicalTokenIsFixed ==
    (Called /\ call.token \in lexicon) =>
        /\ call.run.tried = <<>>
        /\ call.op = "stem" => call.ret = call.token
        /\ (call.op = "parse" /\ ~call.gloss) => call.ret = <<call.token>>

\* C2: a token equal to a form read from a lexicon source after canonical
\* decomposition is treated as lexical: the loop halts before any rule is
\* applied, whether the form was written precomposed or decomposed.
C2_MembershipIsNormalized ==
    (Called /\ \E e \in _read_lex(lex_fns, Delimiter) : normalize(e) = normalize(call.token)) =>
        /\ call.run.tried = <<>>
        /\ rules # <<>> => call.run.halt = "Matched"
        /\ StemOf = normalize(call.token)

\* C3: rules are tried strictly in table order while the working token is
\* not in the lexicon; as soon as the working token is a lexicon entry at the
\* start of an iteration the loop halts, no rule at that index or later is
\* tried, and the returned stem is that lexicon entry.
C3_EarlyExitInTableOrder ==
    Called =>
        /\ call.run.tried = [k \in 1..Steps |-> k]
        /\ \A k \in 1..Steps : Before(k).token \notin lexicon
        /\ Steps < Len(rules) =>
              /\ call.run.halt = "Matched"
              /\ call.run.token \in lexicon
        /\ Steps = Len(rules) => call.run.halt = "Exhausted"
        /\ call.run.halt = "Matched" =>
              /\ StemOf \in lexicon
              /\ StemOf = After(Steps).token

\* C3's case: two rules with the same prefix pattern, the first one making
\* the token lexical, the second one still matching it and never applied.
C3_Witness ==
    /\ Called
    /\ Len(rules) = 2
    /\ rules[1].pos = "prefix"
    /\ rules[1].a = rules[2].a
    /\ call.run.tried = <<1>>
    /\ Hit(1)
    /\ call.run.halt = "Matched"
    /\ search(rules[2].a, StemOf) # -1

C5_UnanchoredPatternIsMalformed ==
    (/\ phase # "new"
     /\ \E r \in 2..Len(rule_fn) :
           LET a == rule_fn[r][1] IN
           /\ ~(Slice(a, 0, 2) = <<"{", "{">> /\ Slice(a, Len(a) - 2, Len(a)) = <<"}", "}">>)
           /\ ~(a # <<>> /\ a[1] = "^")
           /\ ~(a # <<>> /\ a[Len(a)] = "$"))
    => (phase = "failed" /\ error = "MalformedRuleError" /\ rules = <<>>)

\* C6: an empty line of a lexicon source is skipped: the lexicon is exactly
\* the set of first fields of the lines that are not empty.
C6_BlankLinesAreSkipped ==
    phase = "ready" =>
        lexicon = UNION {{LexField(lex_fns[f][l], Delimiter) :
                             l \in {n \in DOMAIN lex_fns[f] : strip(lex_fns[f][n]) # <<>>}} :
                         f \in DOMAIN lex_fns}

\* C7: every call ends Matched or Exhausted after at most R substitution
\* attempts, each rule attempted at most once and never revisited; with an
\* empty lexicon exactly R rules are attempted, with an empty rule table none.
C7_TerminationBound ==
    Called =>
        /\ call.run.halt \in {"Matched", "Exhausted"}
        /\ Steps <= Len(rules)
        /\ \A j, k \in 1..Steps : j < k => call.run.tried[j] < call.run.tried[k]
        /\ lexicon = {} => (call.run.halt = "Exhausted" /\ Steps = Len(rules))
        /\ rules = <<>> => Steps = 0

\* C7's case: an empty lexicon and a full rule table, every rule attempted.
C7_Witness ==
    /\ Called
    /\ lexicon = {}
    /\ Len(rules) = MaxRules
    /\ Steps = Len(rules)
    /\ \E k \in 1..Steps : Hit(k)

\* C8: in gloss mode a matching suffix rule pushes its glosses g1, ..., gn to
\* the front of the suffix deque as a block in their own order.
C8_GlossPushKeepsOrder ==
    (Called /\ GlossMode) =>
        \A k \in 1..Steps :
            Affixed(k, "suffix") => After(k).suffixes = RuleAt(k).gl \o Before(k).suffixes

\* C9 as claimed: with gloss mode off, an attempt records exactly one affix
\* if and only if its pattern is found and the rule is a prefix or a suffix
\* rule, whatever the matched text is.
C9_OneAffixPerPositionalMatch ==
    (Called /\ LiteralMode) =>
        \A k \in 1..Steps :
            Grew(k) = IF Hit(k) /\ RuleAt(k).pos \in {"prefix", "suffix"} THEN 1 ELSE 0

\* C9 as amended: with gloss mode off, an attempt records exactly one affix,
\* the matched text, if and only if its pattern is found, the rule is a
\* prefix or a suffix rule and the matched text does not begin with a class
\* marker; every other attempt records nothing, and parse lists as many
\* affixes as there were such attempts.
C9_OneAffixPerSurfacingMatch ==
    (Called /\ LiteralMode) =>
        /\ \A k \in 1..Steps :
              /\ Grew(k) = IF Affixed(k, "prefix") \/ Affixed(k, "suffix") THEN 1 ELSE 0
              /\ Affixed(k, "prefix") => After(k).prefixes = Append(Before(k).prefixes, Lit(k))
              /\ Affixed(k, "suffix") => After(k).suffixes = <<Lit(k)>> \o Before(k).suffixes
        /\ call.op = "parse" =>
              Len(call.ret) - 1 =
                  Cardinality({k \in 1..Steps : Affixed(k, "prefix") \/ Affixed(k, "suffix")})

\* C9's case: a prefix rule whose pattern is found, the matched text being a
\* class marker, records nothing.
C9_Witness ==
    /\ Called /\ LiteralMode
    /\ \E k \in 1..Steps :
          /\ Hit(k)
          /\ RuleAt(k).pos = "prefix"
          /\ class_re_match(Lit(k))
          /\ Grew(k) = 0
    /\ \E k \in 1..Steps : Grew(k) = 1

\* C10: every attempt of stem replaces all the non-overlapping matches of the
\* pattern, every attempt of the parse family the first one only; the stem
\* of stem and the stem of segment are equal whenever no attempted pattern
\* matches the working token more than once.
C10_DualSubstitutionScope ==
    Called =>
        /\ \A k \in 1..Steps :
              After(k).token =
                  Splice(Before(k).token,
                         LET all == finditer(RuleAt(k).a, Before(k).token, 0) IN
                         IF call.op = "stem" THEN all ELSE SubSeq(all, 1, Min(1, Len(all))),
                         Len(Body(RuleAt(k).a)), RuleAt(k).b, 0)
        /\ (call.op = "stem" /\ \A k \in 1..Steps : Occurrences(k) <= 1) =>
              call.ret = segment_ret(_parse(rules, lexicon, call.token, FALSE))[2]
        /\ (call.op = "segment" /\ \A k \in 1..Steps : Occurrences(k) <= 1) =>
              call.ret[2] = stem_ret(stem_run(rules, lexicon, call.token))

\* C10's case: a pattern found twice in the working token; stem replaces
\* both matches, segment one, and the two stems differ.
C10_Witness ==
    /\ call.op = "stem"
    /\ \E k \in 1..Steps : Occurrences(k) >= 2
    /\ call.ret # segment_ret(_parse(rules, lexicon, call.token, FALSE))[2]

====
